---- MODULE Spec2Model ----
(***************************************************************************)
(* Market GAP analysis service: the per-session pipeline                   *)
(* (market_gap_process.process_market_gap), its insight extractor          *)
(* (extract_insights), the chart renderer (visualization) and the two HTTP *)
(* front doors (market_gap_app, app).                                      *)
(*                                                                         *)
(* Strings that the code inspects character by character (file names,      *)
(* session ids) are sequences of one-character strings.  A spreadsheet is  *)
(* a table: a sequence of column headers and a sequence of rows, each row  *)
(* a sequence of cells.                                                    *)
(***************************************************************************)
EXTENDS Integers, Sequences, FiniteSets, TLC

VARIABLES
    \* ---- one run of process_market_gap / one call of extract_insights
    files,        \* the `files` argument: sequence of [file_name, drive_url]
    pc,           \* position of the run in process_market_gap
    idx,          \* number of loop iterations finished in the current loop
    local_files,  \* local_files: sequence of [file_name, local_path]
    disk,         \* sandbox directory: local path -> content written there
    hw_df,        \* hw_df, sw_df: the tables read while staging
    sw_df,
    hw_insights,  \* result of extract_insights
    sw_insights,
    chart_paths,  \* result of generate_visual_charts: sequence of [key, plotted]
    chart_ids,    \* chart keys uploaded to Drive so far (chart_ids / chart_urls)
    drive,        \* names of the files created in the Drive folder, in order
    summaries,    \* the section summaries built in step 4
    error,        \* exception that reached the handler of line 225: [type, at]
    trace,        \* stages entered so far, in order
    attempted,    \* indexes of `files` whose download was attempted
    http,         \* the last outbound call: [call, attempts, server_errors, outcome]
    \* ---- the front doors
    workers,      \* worker threads started: [door, session_id, local_path, state]
    sandboxes,    \* directories the service has created
    writes,       \* [dir, session_id, by]: files of that session were written there
    responses,    \* HTTP answers given so far: sequence of [door, session_id, status]
    \* ---- direct callers of process_market_gap.run_market_gap_analysis
    drive_service, \* whether the Drive client of process_market_gap was built
    callers,      \* caller -> [session_id, nfiles, pc, idx, fetched, doc, seen,
                  \*            folder_id, alone]
    folders,      \* the folders of the Drive, in creation order: [name, by]
    uploads,      \* the files created in the Drive: [name, parent, by]
    \* ---- one call of ai_narrative
    narrative     \* [section, raw_len, pc, calls, data_len, result, raised]

runVars == <<files, pc, idx, local_files, disk, hw_df, sw_df, hw_insights,
             sw_insights, chart_paths, chart_ids, drive, summaries, error,
             trace, attempted, http>>
doorVars == <<workers, sandboxes, writes, responses>>
workerVars == <<drive_service, callers, folders, uploads>>
narrVars == <<narrative>>
vars == <<runVars, doorVars, workerVars, narrVars>>

----------------------------------------------------------------------------
(* Bounds *)

MaxFiles == 2
MaxRequests == 2
\* longest run of 5xx answers a peer gives to one call and its retries
MaxServerErrors == 4
\* concurrent callers of run_market_gap_analysis
MaxCallers == 2

----------------------------------------------------------------------------
(* Strings *)

\* str.lower() on one character
LowerChar(c) ==
    CASE c = "H" -> "h"
      [] c = "W" -> "w"
      [] c = "S" -> "s"
      [] c = "X" -> "x"
      [] c = "L" -> "l"
      [] OTHER -> c

\* str.lower()
Lower(s) == [k \in 1..Len(s) |-> LowerChar(s[k])]

\* `sub in s`
Contains(sub, s) ==
    \E k \in 0..(Len(s) - Len(sub)) :
        \A j \in 1..Len(sub) : s[k + j] = sub[j]

\* s.startswith(prefix)
StartsWith(s, prefix) ==
    /\ Len(prefix) <= Len(s)
    /\ \A j \in 1..Len(prefix) : s[j] = prefix[j]

\* s.endswith(suffix)
EndsWith(s, suffix) ==
    /\ Len(suffix) <= Len(s)
    /\ \A j \in 1..Len(suffix) : s[Len(s) - Len(suffix) + j] = suffix[j]

HW == <<"h", "w">>
SW == <<"s", "w">>
XlsxExt == <<".", "x", "l", "s", "x">>

----------------------------------------------------------------------------
(* Tables (pandas DataFrames) *)

NaN == "<NaN>"

EmptyDF == [columns |-> <<>>, rows |-> <<>>]

\* what a local file holds: a workbook that parses to a table, or bytes that
\* openpyxl rejects
Workbook(df) == [parsable |-> TRUE, table |-> df]
Corrupt == [parsable |-> FALSE, table |-> EmptyDF]

\* str.lower() on the words that occur as headers and cell values
LowerWord(w) ==
    CASE w = "Item" -> "item"
      [] w = "Lifecycle Status" -> "lifecycle status"
      [] w = "Recommendation" -> "recommendation"
      [] w = "Tier" -> "tier"
      [] w = "TIER" -> "tier"
      [] w = "Obsolete" -> "obsolete"
      [] w = "OBSOLETE" -> "obsolete"
      [] w = "Active" -> "active"
      [] OTHER -> w

\* .astype(str) on one cell: a missing value becomes the text "nan"
AsStr(c) == IF c = NaN THEN "nan" ELSE c

\* cols = {c.lower(): c for c in df.columns}; cols[lname] is the last column
\* whose lower-cased header is lname.  0 when there is none.
ColIndex(df, lname) ==
    LET hits == {k \in 1..Len(df.columns) : LowerWord(df.columns[k]) = lname}
    IN IF hits = {} THEN 0 ELSE CHOOSE k \in hits : \A j \in hits : j <= k

\* the cells of column k, in row order
Column(df, k) == [r \in 1..Len(df.rows) |-> df.rows[r][k]]

\* Series.dropna().tolist()
RECURSIVE DropNa(_)
DropNa(s) ==
    IF s = <<>> THEN <<>>
    ELSE IF Head(s) = NaN THEN DropNa(Tail(s))
    ELSE <<Head(s)>> \o DropNa(Tail(s))

\* (mutant) value_counts(dropna=False): a missing value is counted as well
ValueCountsKeepingNa(s) ==
    LET vals == {s[k] : k \in 1..Len(s)}
    IN [v \in vals |-> Cardinality({k \in 1..Len(s) : s[k] = v})]

\* Series.value_counts().to_dict(): missing values are not counted
ValueCounts(s) ==
    LET vals == {s[k] : k \in 1..Len(s)} \ {NaN}
    IN [v \in vals |-> Cardinality({k \in 1..Len(s) : s[k] = v})]

EmptyMap == [v \in {} |-> 0]

----------------------------------------------------------------------------
(* extract_insights *)

NoInsights == [obsolete |-> <<>>, recommendations |-> <<>>, tier_counts |-> EmptyMap]

\* df[df[cols['lifecycle status']].astype(str).str.lower() == 'obsolete']
\*   .iloc[:, 0].astype(str).tolist()
ObsoleteItems(df) ==
    LET k == ColIndex(df, "lifecycle status")
        hit == SelectSeq(df.rows, LAMBDA r : LowerWord(AsStr(r[k])) = "obsolete")
    IN IF k = 0 THEN <<>> ELSE [j \in 1..Len(hit) |-> AsStr(hit[j][1])]

\* df[cols['recommendation']].dropna().astype(str).tolist()
Recommendations(df) ==
    LET k == ColIndex(df, "recommendation")
        kept == DropNa(Column(df, k))
    IN IF k = 0 THEN <<>> ELSE [j \in 1..Len(kept) |-> AsStr(kept[j])]

\* df[cols['tier']].value_counts().to_dict()
TierCounts(df) ==
    LET k == ColIndex(df, "tier")
    IN IF k = 0 THEN EmptyMap ELSE ValueCounts(Column(df, k))

\* the `insights` record built for one parsed table
TableInsights(df) ==
    [obsolete |-> ObsoleteItems(df),
     recommendations |-> Recommendations(df),
     tier_counts |-> TierCounts(df)]

\* pd.read_excel(path, engine='openpyxl') succeeds / its result
Readable(d, path) == path \in DOMAIN d /\ d[path].parsable
ReadExcel(d, path) == d[path].table

\* (mutant) the new record is merged into the old one instead of replacing it
MergeInsights(old, new) ==
    [obsolete |-> old.obsolete \o new.obsolete,
     recommendations |-> old.recommendations \o new.recommendations,
     tier_counts |-> IF DOMAIN new.tier_counts = {} THEN old.tier_counts
                     ELSE new.tier_counts]
StoreInsightsMerging(acc, name, insights) ==
    IF Contains(HW, name) THEN [acc EXCEPT !.hw = MergeInsights(acc.hw, insights)]
    ELSE IF Contains(SW, name) THEN [acc EXCEPT !.sw = MergeInsights(acc.sw, insights)]
    ELSE acc

\* (mutant) a file that is not hardware is taken for software
StoreInsightsDefaultSoftware(acc, name, insights) ==
    IF Contains(HW, name) THEN [acc EXCEPT !.hw = insights]
    ELSE [acc EXCEPT !.sw = insights]

\* the assignment at the end of the loop body: which record the new insights
\* replace ('hw' is tested first)
StoreInsights(acc, name, insights) ==
    IF Contains(HW, name) THEN [acc EXCEPT !.hw = insights]
    ELSE IF Contains(SW, name) THEN [acc EXCEPT !.sw = insights]
    ELSE acc

\* (mutant) the extension of the path is not looked at
ExtractStepAnyExtension(acc, f, d) ==
    LET name == Lower(f.file_name)
        path == f.local_path
    IN IF ~Readable(d, path) THEN acc
       ELSE StoreInsights(acc, name, TableInsights(ReadExcel(d, path)))

\* one iteration of the loop over local_files
ExtractStep(acc, f, d) ==
    LET name == Lower(f.file_name)
        path == f.local_path
    IN IF ~EndsWith(Lower(path), XlsxExt) THEN acc
       ELSE IF ~Readable(d, path) THEN acc
       ELSE StoreInsights(acc, name, TableInsights(ReadExcel(d, path)))

RECURSIVE ExtractLoop(_, _, _)
ExtractLoop(acc, fs, d) ==
    IF fs = <<>> THEN acc
    ELSE ExtractLoop(ExtractStep(acc, Head(fs), d), Tail(fs), d)

\* extract_insights(local_files), reading the files from the directory d
ExtractInsights(fs, d) == ExtractLoop([hw |-> NoInsights, sw |-> NoInsights], fs, d)

----------------------------------------------------------------------------
(* Inputs *)

\* file names: "hw", "SW", "swhw" (both substrings), "x" (neither)
FileNames == {<<"h", "w">>, <<"S", "W">>, <<"s", "w", "h", "w">>, <<"x">>}

FullHeader == <<"Item", "Lifecycle Status", "Recommendation", "Tier">>

\* two rows: both obsolete with the same item, the same recommendation twice
TableFull == [columns |-> FullHeader,
              rows |-> << <<"k1", "Obsolete", "r1", "1">>,
                          <<"k1", "OBSOLETE", "r1", "1">> >>]
\* no Tier column; a missing recommendation
TableNoTier == [columns |-> <<"Item", "Lifecycle Status", "Recommendation">>,
                rows |-> << <<"k2", "Active", NaN>>,
                            <<"k3", "Obsolete", "r2">> >>]
\* a Tier column under another spelling, with a missing value; nothing else
TableTierOnly == [columns |-> <<"Item", "TIER">>,
                  rows |-> << <<"k4", "2">>, <<"k5", NaN>>, <<"k6", "1">> >>]
\* headers only
TableNoRows == [columns |-> FullHeader, rows |-> <<>>]

SampleTables == {TableFull, TableNoTier, TableTierOnly, TableNoRows}
Contents == {Workbook(t) : t \in SampleTables} \cup {Corrupt}

\* the k-th local path of a file list given to extract_insights directly
Stem(k) == CASE k = 1 -> "f1" [] k = 2 -> "f2" [] k = 3 -> "f3" [] OTHER -> "f4"
Extensions == {XlsxExt, <<".", "X", "L", "S", "X">>, <<".", "c", "s", "v">>}

\* drive_url values, as path segments: two sheet links and a link without /d/<id>
DriveUrls == {<<"docs.google.com", "spreadsheets", "d", "d1", "edit">>,
              <<"docs.google.com", "spreadsheets", "d", "d2">>,
              <<"example.com", "file", "x1">>}

NoSummaries == [built |-> FALSE, total_devices |-> 0, total_applications |-> 0]
NoError == [type |-> "none", at |-> "none"]
NoCall == [call |-> "none", attempts |-> 0, server_errors |-> 0, outcome |-> "none"]

----------------------------------------------------------------------------
(* Idle values of the variables a specification does not use *)

RunIdle ==
    /\ files = <<>> /\ pc = "idle" /\ idx = 0 /\ local_files = <<>>
    /\ disk = <<>> /\ hw_df = EmptyDF /\ sw_df = EmptyDF
    /\ hw_insights = NoInsights /\ sw_insights = NoInsights
    /\ chart_paths = <<>> /\ chart_ids = {} /\ drive = <<>>
    /\ summaries = NoSummaries /\ error = NoError /\ trace = <<>> /\ attempted = {}
    /\ http = NoCall

DoorIdle ==
    /\ workers = <<>> /\ sandboxes = {} /\ writes = {} /\ responses = <<>>

WorkerIdle ==
    /\ drive_service = FALSE /\ callers = <<>> /\ folders = <<>> /\ uploads = {}

NoNarrative ==
    [section |-> "none", raw_len |-> 0, pc |-> "idle", calls |-> <<>>,
     data_len |-> 0, result |-> "none", raised |-> "none"]

NarrIdle == narrative = NoNarrative

----------------------------------------------------------------------------
(* Specification of extract_insights as a function of its argument *)

InitExtract ==
    /\ \E n \in 0..MaxFiles :
         \E names \in [1..n -> FileNames], exts \in [1..n -> Extensions],
            held \in [1..n -> Contents] :
            /\ local_files = [k \in 1..n |->
                   [file_name |-> names[k], local_path |-> <<Stem(k)>> \o exts[k]]]
            /\ disk = [p \in {<<Stem(k)>> \o exts[k] : k \in 1..n} |->
                   held[CHOOSE k \in 1..n : <<Stem(k)>> \o exts[k] = p]]
    /\ pc = "extract_call"
    /\ files = <<>> /\ idx = 0 /\ hw_df = EmptyDF /\ sw_df = EmptyDF
    /\ hw_insights = NoInsights /\ sw_insights = NoInsights
    /\ chart_paths = <<>> /\ chart_ids = {} /\ drive = <<>>
    /\ summaries = NoSummaries /\ error = NoError /\ trace = <<>> /\ attempted = {}
    /\ http = NoCall
    /\ DoorIdle /\ WorkerIdle /\ NarrIdle

\* hw_insights, sw_insights = extract_insights(local_files)
CallExtractInsights ==
    /\ pc = "extract_call"
    /\ LET r == ExtractInsights(local_files, disk)
       IN /\ hw_insights' = r.hw
          /\ sw_insights' = r.sw
    /\ pc' = "extract_returned"
    /\ UNCHANGED <<files, idx, local_files, disk, hw_df, sw_df, chart_paths,
                   chart_ids, drive, summaries, error, trace, attempted, http>>
    /\ UNCHANGED <<doorVars, workerVars, narrVars>>

NextExtract == CallExtractInsights

SpecExtract == InitExtract /\ [][NextExtract]_vars

----------------------------------------------------------------------------
(* drive_utils.download_sheet_as_xlsx and upload_to_drive *)

\* re.search(r'/d/([a-zA-Z0-9_-]+)', drive_url): the segment that follows the
\* first "d" segment, "" when the URL has none
FileIdOf(url) ==
    LET hits == {k \in 2..(Len(url) - 1) : url[k] = "d"}
    IN IF hits = {} THEN ""
       ELSE url[(CHOOSE k \in hits : \A j \in hits : k <= j) + 1]

\* out_path = Path(download_dir) / f"{file_id}.xlsx"
OutPath(file_id) == <<file_id>> \o XlsxExt

\* Retry(total=3, status_forcelist=[500, 502, 503, 504]): the retries the
\* session makes for one call
RetryTotal == 3

\* how session.get(...) followed by raise_for_status() can end once the peer
\* no longer answers 5xx: a 4xx status, or no answer within timeout=30
GetFailures == {"HTTPError", "Timeout"}

\* session.get(...) against a peer that answers 5xx n times before its final
\* answer: the session repeats the request after each 5xx, RetryTotal times at
\* most, and raises RetryError when the last repeat is answered 5xx as well
\* (a peer that stops answering is asked again as well, until the retries
\* are used up)
SessionGet(n, final) ==
    IF n > RetryTotal
    THEN [call |-> "session.get", attempts |-> RetryTotal + 1,
          server_errors |-> RetryTotal + 1, outcome |-> "RetryError"]
    ELSE [call |-> "session.get",
          attempts |-> IF final = "Timeout" THEN RetryTotal + 1 ELSE n + 1,
          server_errors |-> n, outcome |-> final]

\* drive_service.files().create(...).execute(): num_retries is left at 0, so
\* the request is sent once and the first 5xx answer raises HttpError
DriveCreate(n) ==
    [call |-> "files.create", attempts |-> 1,
     server_errors |-> IF n = 0 THEN 0 ELSE 1,
     outcome |-> IF n = 0 THEN "ok" ELSE "HttpError"]

----------------------------------------------------------------------------
(* visualization.generate_visual_charts *)

\* list(tier_counts.items())
RECURSIVE Items(_)
Items(m) ==
    IF DOMAIN m = {} THEN <<>>
    ELSE LET v == CHOOSE v \in DOMAIN m : TRUE
         IN << <<v, m[v]>> >> \o Items([w \in DOMAIN m \ {v} |-> m[w]])

\* pd.DataFrame(list(tier_counts.items()), columns=['Tier', 'Count'])
TierFrame(tier_counts) == [columns |-> <<"Tier", "Count">>, rows |-> Items(tier_counts)]

\* `name in df.columns` and the position of that column
HasColumn(df, name) == \E k \in 1..Len(df.columns) : df.columns[k] = name
ColumnAt(df, name) == CHOOSE k \in 1..Len(df.columns) : df.columns[k] = name

\* headers with 'Obsolescence' or 'Gap' in them, and headers of numeric columns
GapHeaders == {"Obsolescence", "Gap"}
NumericHeaders == {"Count", "Obsolescence", "Gap"}

\* counts.plot.pie(...) on an empty Series: the plotting library either draws a
\* chart without wedges or rejects the data, depending on its version
PlotLibraries == {"blank", "raises"}

\* one pass of the loop over data_frames: the charts added for the frame
\* `base`, given the charts added so far (a key is <<base, suffix>>; the names
\* of the frames are not prefixes of one another, so key.startswith(base)
\* compares the key's base)
ChartsOf(base, df, charts) ==
    LET tier == IF HasColumn(df, "Tier")
                THEN << [key |-> <<base, "tier">>, kind |-> "pie",
                         plotted |-> ValueCounts(Column(df, ColumnAt(df, "Tier")))] >>
                ELSE <<>>
        status == IF HasColumn(df, "Status")
                  THEN << [key |-> <<base, "status">>, kind |-> "bar",
                           plotted |-> ValueCounts(Column(df, ColumnAt(df, "Status")))] >>
                  ELSE <<>>
        gapCols == SelectSeq(df.columns,
                       LAMBDA c : c \in GapHeaders /\ c \in NumericHeaders)
        gaps == [j \in 1..Len(gapCols) |->
                    [key |-> <<base, gapCols[j]>>, kind |-> "bar",
                     plotted |-> Column(df, ColumnAt(df, gapCols[j]))]]
        numCols == SelectSeq(df.columns, LAMBDA c : c \in NumericHeaders)
        added == tier \o status \o gaps
        any == \E j \in 1..Len(charts \o added) : (charts \o added)[j].key[1] = base
    IN IF any \/ numCols = <<>> THEN added
       ELSE << [key |-> <<base, numCols[1]>>, kind |-> "bar",
                plotted |-> ValueCounts(Column(df, ColumnAt(df, numCols[1])))] >>

\* the pie chart of this frame cannot be drawn
PieFails(df, lib) ==
    /\ HasColumn(df, "Tier")
    /\ DOMAIN ValueCounts(Column(df, ColumnAt(df, "Tier"))) = {}
    /\ lib = "raises"

\* the loop of generate_visual_charts over the remaining frames; frames is the
\* dict as a sequence of [name, df] in insertion order
RECURSIVE ChartLoop(_, _, _)
ChartLoop(frames, charts, lib) ==
    IF frames = <<>> THEN [raised |-> FALSE, charts |-> charts]
    ELSE IF PieFails(Head(frames).df, lib) THEN [raised |-> TRUE, charts |-> <<>>]
    ELSE ChartLoop(Tail(frames),
                   charts \o ChartsOf(Head(frames).name, Head(frames).df, charts), lib)

\* generate_visual_charts(data_frames, output_dir)
GenerateVisualCharts(frames, lib) == ChartLoop(frames, <<>>, lib)

----------------------------------------------------------------------------
(* market_gap_process.process_market_gap: one run *)

FileDescs == [file_name : FileNames, drive_url : DriveUrls]

\* the front door passes a non-empty `files` list (it answers 400 otherwise)

Init ==
    /\ \E n \in 1..MaxFiles : files \in [1..n -> FileDescs]
    /\ pc = "staging"
    /\ idx = 0 /\ local_files = <<>> /\ disk = <<>>
    /\ hw_df = EmptyDF /\ sw_df = EmptyDF
    /\ hw_insights = NoInsights /\ sw_insights = NoInsights
    /\ chart_paths = <<>> /\ chart_ids = {} /\ drive = <<>>
    /\ summaries = NoSummaries /\ error = NoError
    /\ trace = <<"STAGING">> /\ attempted = {} /\ http = NoCall
    /\ DoorIdle /\ WorkerIdle /\ NarrIdle

\* (mutant) the handler logs the exception and lets the run go on
HandlerResuming(e) ==
    /\ pc' = pc
    /\ error' = e

\* (mutant) the handler logs the exception and raises it again
HandlerReraising(e) ==
    /\ pc' = "raised"
    /\ error' = e

\* except Exception as e: ... return {'error': str(e)}
Handler(e) ==
    /\ pc' = "failed"
    /\ error' = e

\* one iteration of the loop of step 1
StageFile ==
    /\ pc = "staging"
    /\ idx < Len(files)
    /\ LET f == files[idx + 1]
           file_id == FileIdOf(f.drive_url)
           dest == OutPath(file_id)
           name_lower == Lower(f.file_name)
           read == Contains(HW, name_lower) \/ Contains(SW, name_lower)
       IN /\ attempted' = attempted \cup {idx + 1}
          /\ \/ /\ file_id = ""
                /\ Handler([type |-> "ValueError", at |-> "download_sheet_as_xlsx"])
                /\ UNCHANGED <<idx, local_files, disk, hw_df, sw_df, http>>
             \/ /\ file_id # ""
                /\ \E n \in 0..MaxServerErrors, e \in GetFailures \cup {"ok"} :
                     /\ SessionGet(n, e).outcome # "ok"
                     /\ http' = SessionGet(n, e)
                     /\ Handler([type |-> SessionGet(n, e).outcome,
                                 at |-> "download_sheet_as_xlsx"])
                /\ UNCHANGED <<idx, local_files, disk, hw_df, sw_df>>
             \/ /\ file_id # ""
                /\ \E n \in 0..MaxServerErrors :
                     /\ SessionGet(n, "ok").outcome = "ok"
                     /\ http' = SessionGet(n, "ok")
                /\ \E c \in Contents :
                     /\ disk' = (dest :> c) @@ disk
                     /\ local_files' = Append(local_files,
                            [file_name |-> f.file_name, local_path |-> dest])
                     /\ \/ /\ read /\ ~c.parsable
                           /\ Handler([type |-> "BadZipFile", at |-> "read_excel"])
                           /\ UNCHANGED <<idx, hw_df, sw_df>>
                        \/ /\ ~read \/ c.parsable
                           /\ hw_df' = IF Contains(HW, name_lower) THEN c.table ELSE hw_df
                           /\ sw_df' = IF ~Contains(HW, name_lower) /\ Contains(SW, name_lower)
                                       THEN c.table ELSE sw_df
                           /\ idx' = idx + 1
                           /\ pc' = IF idx + 1 = Len(files) THEN "extracting" ELSE "staging"
                           /\ UNCHANGED error
    /\ UNCHANGED <<files, hw_insights, sw_insights, chart_paths, chart_ids, drive,
                   summaries, trace>>
    /\ UNCHANGED <<doorVars, workerVars, narrVars>>

\* step 2
ExtractStage ==
    /\ pc = "extracting"
    /\ LET r == ExtractInsights(local_files, disk)
       IN /\ hw_insights' = r.hw
          /\ sw_insights' = r.sw
    /\ pc' = "charting"
    /\ trace' = Append(trace, "EXTRACTING")
    /\ UNCHANGED <<files, idx, local_files, disk, hw_df, sw_df, chart_paths,
                   chart_ids, drive, summaries, error, attempted, http>>
    /\ UNCHANGED <<doorVars, workerVars, narrVars>>

\* data_frames of step 3
DataFrames ==
    << [name |-> "hardware_insights", df |-> TierFrame(hw_insights.tier_counts)],
       [name |-> "software_insights", df |-> TierFrame(sw_insights.tier_counts)] >>

\* step 3, up to chart_paths = generate_visual_charts(data_frames, chart_dir)
GenerateCharts ==
    /\ pc = "charting"
    /\ trace' = Append(trace, "CHARTING")
    /\ \E lib \in PlotLibraries :
         LET r == GenerateVisualCharts(DataFrames, lib)
         IN \/ /\ r.raised
               /\ Handler([type |-> "ValueError", at |-> "generate_visual_charts"])
               /\ UNCHANGED <<chart_paths, idx>>
            \/ /\ ~r.raised
               /\ chart_paths' = r.charts
               /\ idx' = 0
               /\ pc' = IF r.charts = <<>> THEN "summaries" ELSE "publishing"
               /\ UNCHANGED error
    /\ UNCHANGED <<files, local_files, disk, hw_df, sw_df, hw_insights, sw_insights,
                   chart_ids, drive, summaries, attempted, http>>
    /\ UNCHANGED <<doorVars, workerVars, narrVars>>

\* the stage is entered when its first action runs
Enter(stage) == IF trace[Len(trace)] = stage THEN trace ELSE Append(trace, stage)

\* one upload_to_drive(path, folder_id) of the comprehension that builds chart_ids
UploadChart ==
    /\ pc = "publishing"
    /\ idx < Len(chart_paths)
    /\ trace' = Enter("PUBLISHING_CHARTS")
    /\ \E n \in 0..MaxServerErrors :
        /\ http' = DriveCreate(n)
        /\ \/ /\ DriveCreate(n).outcome = "ok"
              /\ chart_ids' = chart_ids \cup {chart_paths[idx + 1].key}
              /\ drive' = Append(drive, chart_paths[idx + 1].key)
              /\ idx' = idx + 1
              /\ pc' = IF idx + 1 = Len(chart_paths) THEN "summaries" ELSE "publishing"
              /\ UNCHANGED error
           \/ /\ DriveCreate(n).outcome # "ok"
              /\ Handler([type |-> "HttpError", at |-> "upload_to_drive"])
              /\ UNCHANGED <<chart_ids, drive, idx>>
    /\ UNCHANGED <<files, local_files, disk, hw_df, sw_df, hw_insights, sw_insights,
                   chart_paths, summaries, attempted>>
    /\ UNCHANGED <<doorVars, workerVars, narrVars>>

\* step 4
BuildSummaries ==
    /\ pc = "summaries"
    /\ summaries' = [built |-> TRUE,
                     total_devices |-> Len(hw_df.rows),
                     total_applications |-> Len(sw_df.rows)]
    /\ pc' = "assembling"
    /\ trace' = Append(trace, "BUILDING_SUMMARIES")
    /\ UNCHANGED <<files, idx, local_files, disk, hw_df, sw_df, hw_insights,
                   sw_insights, chart_paths, chart_ids, drive, error, attempted, http>>
    /\ UNCHANGED <<doorVars, workerVars, narrVars>>

\* the names process_market_gap has assigned when it reaches step 6 (line 188
\* is a comment as a whole: it assigns nothing), and the names the payload reads
AssignedNames ==
    {"session_id", "email", "files", "local_path", "folder_id", "local_files",
     "hw_df", "sw_df", "hw_insights", "sw_insights", "data_frames", "chart_dir",
     "chart_paths", "chart_ids", "chart_urls", "summaries"}
PayloadNames == {"session_id", "email", "sections", "chart_urls", "local_files"}

\* step 6: the payload dictionary is evaluated
AssemblePayload ==
    /\ pc = "assembling"
    /\ trace' = Append(trace, "ASSEMBLING")
    /\ IF PayloadNames \subseteq AssignedNames
       THEN pc' = "dispatching" /\ UNCHANGED error
       ELSE Handler([type |-> "NameError", at |-> "payload"])
    /\ UNCHANGED <<files, idx, local_files, disk, hw_df, sw_df, hw_insights,
                   sw_insights, chart_paths, chart_ids, drive, summaries, attempted, http>>
    /\ UNCHANGED <<doorVars, workerVars, narrVars>>

Next ==
    \/ StageFile
    \/ ExtractStage
    \/ GenerateCharts
    \/ UploadChart
    \/ BuildSummaries
    \/ AssemblePayload

Spec == Init /\ [][Next]_vars

----------------------------------------------------------------------------
(* The front doors: market_gap_app.start_market_gap and app.start_market_gap *)

Absent == <<"<absent>">>
NoField == "<absent>"
TempPrefix == <<"T", "e", "m", "p", "_">>

\* session_id values of a request: absent, "", "a", "b", "Temp_a"
SessionIdValues == {Absent, <<>>, <<"a">>, <<"b">>, TempPrefix \o <<"a">>}

\* a request: the door it is sent to, its encoding (JSON or multipart form),
\* and its fields; nfiles is the number of files it lists or uploads
Requests ==
    [door : {"market_gap_app", "app"}, is_json : BOOLEAN,
     session_id : SessionIdValues, email : {NoField, "", "e"},
     folder_id : {NoField, "", "F1"}, nfiles : 0..1]

\* `not x` for a field read with data.get(...): absent (None) or empty
NoSessionId(session_id) == session_id \in {Absent, <<>>}
Falsy(field) == field \in {NoField, ""}

\* folder_name = session_id if session_id.startswith("Temp_") else f"Temp_{session_id}"
FolderName(session_id) ==
    IF StartsWith(session_id, TempPrefix) THEN session_id ELSE TempPrefix \o session_id

\* os.path.join(BASE_DIR, folder_name) and os.path.join('/tmp', session_id)
SessionFolder(session_id) == [base |-> "temp_sessions", name |-> FolderName(session_id)]
TmpDir(session_id) == [base |-> "/tmp", name |-> session_id]

\* (mutant) the door waits for the run and reports how it ended: both workers
\* end in an error
RespondAfterRun(req, status) ==
    responses' = Append(responses,
        [door |-> req.door, session_id |-> req.session_id,
         status |-> IF status \in {200, 202} THEN 500 ELSE status])

\* return jsonify(...), status
Respond(req, status) ==
    responses' = Append(responses,
        [door |-> req.door, session_id |-> req.session_id, status |-> status])

StartThread(req) ==
    workers' = Append(workers,
        [door |-> req.door, session_id |-> req.session_id,
         local_path |-> SessionFolder(req.session_id), state |-> "started"])

InitDoor ==
    /\ workers = <<>> /\ sandboxes = {} /\ writes = {} /\ responses = <<>>
    /\ RunIdle /\ WorkerIdle /\ NarrIdle

\* market_gap_app.start_market_gap
StartMarketGap ==
    /\ Len(responses) < MaxRequests
    /\ \E req \in Requests :
        /\ req.door = "market_gap_app"
        /\ LET formError == ~req.is_json /\ (req.session_id = Absent \/ req.folder_id = NoField)
               saved == IF req.is_json \/ formError THEN {}
                        ELSE {TmpDir(req.session_id)}
               uploaded == IF req.nfiles = 0 THEN {}
                           ELSE {[dir |-> d, session_id |-> req.session_id, by |-> "door"] :
                                    d \in saved}
           IN IF formError
              THEN /\ Respond(req, 500)
                   /\ UNCHANGED <<workers, sandboxes, writes>>
              ELSE IF NoSessionId(req.session_id) \/ Falsy(req.folder_id) \/ req.nfiles = 0
              THEN /\ Respond(req, 400)
                   /\ sandboxes' = sandboxes \cup saved
                   /\ writes' = writes \cup uploaded
                   /\ UNCHANGED workers
              ELSE /\ sandboxes' = sandboxes \cup saved \cup {SessionFolder(req.session_id)}
                   /\ writes' = writes \cup uploaded
                   /\ StartThread(req)
                   /\ Respond(req, 202)
    /\ UNCHANGED <<runVars, workerVars, narrVars>>

\* app.start_market_gap
AppStartMarketGap ==
    /\ Len(responses) < MaxRequests
    /\ \E req \in Requests :
        /\ req.door = "app"
        /\ IF NoSessionId(req.session_id) \/ Falsy(req.email) \/ req.nfiles = 0
           THEN /\ Respond(req, 400)
                /\ UNCHANGED <<workers, sandboxes, writes>>
           ELSE /\ sandboxes' = sandboxes \cup {SessionFolder(req.session_id)}
                /\ StartThread(req)
                /\ Respond(req, 200)
                /\ UNCHANGED writes
    /\ UNCHANGED <<runVars, workerVars, narrVars>>

\* the worker of market_gap_app: runner() calls process_market_gap, which
\* creates local_path and downloads the input files into it
WorkerStages ==
    /\ \E i \in 1..Len(workers) :
        /\ workers[i].door = "market_gap_app"
        /\ workers[i].state = "started"
        /\ workers' = [workers EXCEPT ![i].state = "running"]
        /\ sandboxes' = sandboxes \cup {workers[i].local_path}
        /\ writes' = writes \cup
               {[dir |-> workers[i].local_path, session_id |-> workers[i].session_id,
                 by |-> "worker"]}
    /\ UNCHANGED responses
    /\ UNCHANGED <<runVars, workerVars, narrVars>>

\* process_market_gap returns its {'error': ...} record (every run ends in the
\* handler of line 225); runner() drops the value
WorkerReturns ==
    /\ \E i \in 1..Len(workers) :
        /\ workers[i].door = "market_gap_app"
        /\ workers[i].state = "running"
        /\ workers' = [workers EXCEPT ![i].state = "failed"]
    /\ UNCHANGED <<sandboxes, writes, responses>>
    /\ UNCHANGED <<runVars, workerVars, narrVars>>

\* the worker of app: the thread calls run_market_gap_analysis with four
\* arguments; the function takes five, so the call raises TypeError
WorkerTypeError ==
    /\ \E i \in 1..Len(workers) :
        /\ workers[i].door = "app"
        /\ workers[i].state = "started"
        /\ workers' = [workers EXCEPT ![i].state = "crashed"]
    /\ UNCHANGED <<sandboxes, writes, responses>>
    /\ UNCHANGED <<runVars, workerVars, narrVars>>

NextDoor ==
    \/ StartMarketGap
    \/ AppStartMarketGap
    \/ WorkerStages
    \/ WorkerReturns
    \/ WorkerTypeError

SpecDoor == InitDoor /\ [][NextDoor]_vars

----------------------------------------------------------------------------
(* market_gap_process.ai_narrative as a function of its arguments and of    *)
(* what the provider answers                                                *)

\* the keys of summaries, one narrative each
Sections ==
    {"executive_summary", "current_state_overview", "hardware_gap_analysis",
     "software_gap_analysis", "market_benchmarking"}

\* if len(raw) > 10000: raw = raw[:10000] + '... (truncated)'
RawLimit == 10000
TruncatedMark == <<".", ".", ".", " ", "(", "t", "r", "u", "n", "c", "a", "t", "e", "d", ")">>
DataLen(raw_len) ==
    IF raw_len > RawLimit THEN RawLimit + Len(TruncatedMark) ELSE raw_len

\* lengths of json.dumps(summary): "{}", and around the limit
RawLengths == {2, RawLimit - 1, RawLimit, RawLimit + 1}

PrimaryModel == [model |-> "gpt-4o-mini", max_tokens |-> 500]
FallbackModel == [model |-> "gpt-3.5-turbo", max_tokens |-> 300]

\* what openai.chat.completions.create(...) can give: a completion with text,
\* a completion whose message.content is None, or an exception
ProviderAnswers == {"text", "no_content", "RateLimitError", "APIError"}

\* resp.choices[0].message.content.strip(): the text, or AttributeError when
\* the content is None
Finish(n, answer) ==
    CASE answer = "text" -> [n EXCEPT !.pc = "returned", !.result = "text"]
      [] answer = "no_content" -> [n EXCEPT !.pc = "raised", !.raised = "AttributeError"]
      [] OTHER -> [n EXCEPT !.pc = "raised", !.raised = answer]

InitNarrative ==
    /\ \E section \in Sections, raw_len \in RawLengths :
         narrative = [NoNarrative EXCEPT !.section = section, !.raw_len = raw_len,
                                         !.pc = "primary"]
    /\ RunIdle /\ DoorIdle /\ WorkerIdle

\* (mutant) every exception of the primary call leads to the fallback call
CallPrimaryAnyError ==
    /\ narrative.pc = "primary"
    /\ \E answer \in ProviderAnswers :
         LET called == [narrative EXCEPT
                 !.data_len = DataLen(narrative.raw_len),
                 !.calls = Append(@, [model |-> PrimaryModel.model,
                                      max_tokens |-> PrimaryModel.max_tokens,
                                      answer |-> answer])]
         IN narrative' = IF answer \in {"RateLimitError", "APIError"}
                         THEN [called EXCEPT !.pc = "fallback"]
                         ELSE Finish(called, answer)
    /\ UNCHANGED <<runVars, doorVars, workerVars>>

\* the message is built and the primary model is called; RateLimitError
\* alone is caught
CallPrimary ==
    /\ narrative.pc = "primary"
    /\ \E answer \in ProviderAnswers :
         LET called == [narrative EXCEPT
                 !.data_len = DataLen(narrative.raw_len),
                 !.calls = Append(@, [model |-> PrimaryModel.model,
                                      max_tokens |-> PrimaryModel.max_tokens,
                                      answer |-> answer])]
         IN narrative' = IF answer = "RateLimitError"
                         THEN [called EXCEPT !.pc = "fallback"]
                         ELSE Finish(called, answer)
    /\ UNCHANGED <<runVars, doorVars, workerVars>>

\* the except branch: the fallback model is called, outside any try
CallFallback ==
    /\ narrative.pc = "fallback"
    /\ \E answer \in ProviderAnswers :
         narrative' = Finish(
             [narrative EXCEPT
                 !.calls = Append(@, [model |-> FallbackModel.model,
                                      max_tokens |-> FallbackModel.max_tokens,
                                      answer |-> answer])],
             answer)
    /\ UNCHANGED <<runVars, doorVars, workerVars>>

NextNarrative ==
    \/ CallPrimary
    \/ CallFallback

SpecNarrative == InitNarrative /\ [][NextNarrative]_vars

----------------------------------------------------------------------------
(* process_market_gap.run_market_gap_analysis, called with its five         *)
(* arguments by concurrent callers that share the module's Drive client     *)

Callers == 1..MaxCallers

\* session_id values of the callers
CallerSessions == {"a", "b"}

\* the two reports of a run, in upload order
ReportNames == <<"GAP_Market_Report.docx", "GAP_Market_Summary.pptx">>

\* how requests.get(url) followed by raise_for_status() can end: the content,
\* an error status or a refused connection, or a peer that never answers
\* (the call sets no timeout)
PeerAnswers == {"ok", "error", "silent"}

InitWorker ==
    /\ drive_service \in BOOLEAN
    /\ \E sids \in [Callers -> CallerSessions], ns \in [Callers -> 0..MaxFiles] :
         callers = [c \in Callers |->
             [session_id |-> sids[c], nfiles |-> ns[c],
              pc |-> IF ns[c] = 0 THEN "templates" ELSE "download",
              idx |-> 0, fetched |-> {}, doc |-> 1, seen |-> {}, folder_id |-> 0,
              alone |-> TRUE]]
    /\ folders = <<>> /\ uploads = {}
    /\ RunIdle /\ DoorIdle /\ NarrIdle

\* one download_file(f["file_url"], dest_path) of the loop over files; its
\* own try/except absorbs every exception
DownloadFile(c) ==
    /\ callers[c].pc = "download"
    /\ \E answer \in PeerAnswers :
         LET k == callers[c].idx + 1
             next == IF k = callers[c].nfiles THEN "templates" ELSE "download"
         IN callers' = [callers EXCEPT ![c] =
                CASE answer = "ok" ->
                        [@ EXCEPT !.idx = k, !.fetched = @ \cup {k}, !.pc = next]
                  [] answer = "error" -> [@ EXCEPT !.idx = k, !.pc = next]
                  [] OTHER -> [@ EXCEPT !.pc = "blocked"]]
    /\ UNCHANGED <<drive_service, folders, uploads>>
    /\ UNCHANGED <<runVars, doorVars, narrVars>>

\* fill_word_template and fill_ppt_template write the two reports
FillTemplates(c) ==
    /\ callers[c].pc = "templates"
    /\ callers' = [callers EXCEPT ![c].pc = "upload", ![c].doc = 1]
    /\ UNCHANGED <<drive_service, folders, uploads>>
    /\ UNCHANGED <<runVars, doorVars, narrVars>>

\* what follows the upload of report number doc
AfterUpload(doc) == IF doc < Len(ReportNames) THEN "upload" ELSE "done"

\* the Drive folders named name, as positions in folders
FoldersNamed(name) == {i \in 1..Len(folders) : folders[i].name = name}

\* caller c is between its first folder lookup and the end of its run
MidPublish(c) ==
    \/ callers[c].pc \in {"create_folder", "upload_file"}
    \/ callers[c].pc = "upload" /\ callers[c].doc > 1

\* whether caller c, at its first lookup, has the session name to itself: no
\* other caller is publishing for that name at that moment (later lookups
\* keep the value)
Alone(c) ==
    IF callers[c].doc > 1 THEN callers[c].alone
    ELSE \A o \in Callers \ {c} :
            callers[o].session_id = callers[c].session_id => ~MidPublish(o)

\* (mutant) the lookup never finds a folder
LookupFolderBlind(c) ==
    /\ callers[c].pc = "upload"
    /\ \/ /\ ~drive_service
          /\ callers' = [callers EXCEPT ![c].pc = AfterUpload(callers[c].doc),
                                        ![c].doc = IF @ < Len(ReportNames) THEN @ + 1 ELSE @]
       \/ /\ drive_service
          /\ callers' = [callers EXCEPT ![c].seen = {},
                                        ![c].alone = Alone(c),
                                        ![c].pc = "create_folder"]
       \/ /\ drive_service
          /\ callers' = [callers EXCEPT ![c].pc = "failed"]
    /\ UNCHANGED <<drive_service, folders, uploads>>
    /\ UNCHANGED <<runVars, doorVars, narrVars>>

\* upload_to_drive up to the files().list(...) of get_or_create_drive_folder:
\* without a Drive client it returns None; otherwise the lookup either finds
\* folders of that name and takes the first of the answer, or finds none
LookupFolder(c) ==
    /\ callers[c].pc = "upload"
    /\ \/ /\ ~drive_service
          /\ callers' = [callers EXCEPT ![c].pc = AfterUpload(callers[c].doc),
                                        ![c].doc = IF @ < Len(ReportNames) THEN @ + 1 ELSE @]
       \/ /\ drive_service
          /\ LET found == FoldersNamed(callers[c].session_id)
             IN \/ /\ found = {}
                   /\ callers' = [callers EXCEPT ![c].seen = {},
                                                 ![c].alone = Alone(c),
                                                 ![c].pc = "create_folder"]
                \/ /\ found # {}
                   /\ \E first \in found :
                        callers' = [callers EXCEPT ![c].seen = found,
                                                   ![c].alone = Alone(c),
                                                   ![c].folder_id = first,
                                                   ![c].pc = "upload_file"]
       \/ /\ drive_service
          /\ callers' = [callers EXCEPT ![c].pc = "failed"]
    /\ UNCHANGED <<drive_service, folders, uploads>>
    /\ UNCHANGED <<runVars, doorVars, narrVars>>

\* (mutant) the folder is created only if there is still none of that name
CreateFolderOnce(c) ==
    /\ callers[c].pc = "create_folder"
    /\ LET found == FoldersNamed(callers[c].session_id)
       IN IF found = {}
          THEN /\ folders' = Append(folders, [name |-> callers[c].session_id, by |-> c])
               /\ callers' = [callers EXCEPT ![c].folder_id = Len(folders) + 1,
                                             ![c].pc = "upload_file"]
          ELSE /\ folders' = folders
               /\ callers' = [callers EXCEPT ![c].folder_id = CHOOSE i \in found : TRUE,
                                             ![c].pc = "upload_file"]
    /\ UNCHANGED <<drive_service, uploads>>
    /\ UNCHANGED <<runVars, doorVars, narrVars>>

\* the files().create(...) of get_or_create_drive_folder, reached after a
\* lookup that found nothing
CreateFolder(c) ==
    /\ callers[c].pc = "create_folder"
    /\ \/ /\ folders' = Append(folders, [name |-> callers[c].session_id, by |-> c])
          /\ callers' = [callers EXCEPT ![c].folder_id = Len(folders) + 1,
                                        ![c].pc = "upload_file"]
       \/ /\ folders' = folders
          /\ callers' = [callers EXCEPT ![c].pc = "failed"]
    /\ UNCHANGED <<drive_service, uploads>>
    /\ UNCHANGED <<runVars, doorVars, narrVars>>

\* the files().create(...) of upload_to_drive that stores the report
UploadFile(c) ==
    /\ callers[c].pc = "upload_file"
    /\ \/ /\ uploads' = uploads \cup
                 {[name |-> ReportNames[callers[c].doc],
                   parent |-> callers[c].folder_id, by |-> c]}
          /\ callers' = [callers EXCEPT ![c].pc = AfterUpload(callers[c].doc),
                                        ![c].doc = IF @ < Len(ReportNames) THEN @ + 1 ELSE @]
       \/ /\ uploads' = uploads
          /\ callers' = [callers EXCEPT ![c].pc = "failed"]
    /\ UNCHANGED <<drive_service, folders>>
    /\ UNCHANGED <<runVars, doorVars, narrVars>>

CallerStep(c) ==
    \/ DownloadFile(c)
    \/ FillTemplates(c)
    \/ LookupFolder(c)
    \/ CreateFolder(c)
    \/ UploadFile(c)

NextWorker == \E c \in Callers : CallerStep(c)

SpecWorker == InitWorker /\ [][NextWorker]_vars

\* every caller's thread keeps running while it has a step to take
FairSpecWorker == SpecWorker /\ \A c \in Callers : WF_vars(CallerStep(c))

----------------------------------------------------------------------------
(* Properties of extract_insights (checked under SpecExtract) *)

\* the files of the argument that parse, and the category of each
ParsesAt(k) ==
    /\ EndsWith(Lower(local_files[k].local_path), XlsxExt)
    /\ Readable(disk, local_files[k].local_path)
CategoryAt(k) ==
    LET name == Lower(local_files[k].file_name)
    IN IF Contains(HW, name) THEN "hw" ELSE IF Contains(SW, name) THEN "sw" ELSE "none"
FilesOf(cat) == {k \in 1..Len(local_files) : ParsesAt(k) /\ CategoryAt(k) = cat}
LastOf(cat) == CHOOSE k \in FilesOf(cat) : \A j \in FilesOf(cat) : j <= k
FirstOf(cat) == CHOOSE k \in FilesOf(cat) : \A j \in FilesOf(cat) : k <= j
AloneAt(k) == TableInsights(ReadExcel(disk, local_files[k].local_path))

NoDuplicates(s) == \A a, b \in 1..Len(s) : s[a] = s[b] => a = b

\* C6: when two or more parsable files classify into the same category, the
\* record returned for that category is the record of the last of them alone:
\* obsolete, recommendations and tier_counts all come from that file.
C6_LastFileWins ==
    pc = "extract_returned" =>
        /\ Cardinality(FilesOf("hw")) >= 2 => hw_insights = AloneAt(LastOf("hw"))
        /\ Cardinality(FilesOf("sw")) >= 2 => sw_insights = AloneAt(LastOf("sw"))

\* C6 witness: two hardware files were processed, the earlier one with tiers,
\* obsolete items and recommendations, the last one without a Tier column, and
\* the returned record has no tiers.
C6_Witness ==
    /\ pc = "extract_returned"
    /\ Cardinality(FilesOf("hw")) >= 2
    /\ DOMAIN AloneAt(FirstOf("hw")).tier_counts # {}
    /\ AloneAt(FirstOf("hw")).obsolete # <<>>
    /\ ColIndex(ReadExcel(disk, local_files[LastOf("hw")].local_path), "tier") = 0
    /\ AloneAt(LastOf("hw")) # AloneAt(FirstOf("hw"))
    /\ DOMAIN hw_insights.tier_counts = {}

\* C9: in the records extract_insights returns, neither the recommendations
\* sequence nor the obsolete sequence contains a value twice.
C9_NoValueTwice ==
    pc = "extract_returned" =>
        /\ NoDuplicates(hw_insights.recommendations)
        /\ NoDuplicates(hw_insights.obsolete)
        /\ NoDuplicates(sw_insights.recommendations)
        /\ NoDuplicates(sw_insights.obsolete)

\* sum(m.values())
RECURSIVE SumValues(_)
SumValues(m) ==
    IF DOMAIN m = {} THEN 0
    ELSE LET v == CHOOSE v \in DOMAIN m : TRUE
         IN m[v] + SumValues([w \in DOMAIN m \ {v} |-> m[w]])

\* the table of the file that wins category cat, and the number of its rows
\* that carry a Tier value
WinningTable(cat) == ReadExcel(disk, local_files[LastOf(cat)].local_path)
RowsWithTier(df) ==
    LET k == ColIndex(df, "tier")
    IN IF k = 0 THEN 0
       ELSE Cardinality({r \in 1..Len(df.rows) : df.rows[r][k] # NaN})
Returned(cat) == IF cat = "hw" THEN hw_insights ELSE sw_insights

\* C16: in every record extract_insights returns, the values of tier_counts
\* add up to the number of rows of the category's winning table that carry a
\* Tier value, and every count is a positive integer.
C16_TierCountsAddUp ==
    pc = "extract_returned" =>
        \A cat \in {"hw", "sw"} :
            /\ SumValues(Returned(cat).tier_counts) =
                  IF FilesOf(cat) = {} THEN 0 ELSE RowsWithTier(WinningTable(cat))
            /\ \A v \in DOMAIN Returned(cat).tier_counts :
                  Returned(cat).tier_counts[v] \in Nat \ {0}

\* C16 witness: the winning hardware table has a row without a Tier value and
\* rows with one, the winning software table has a tier that occurs twice, and
\* both records were returned with those counts.
C16_Witness ==
    /\ pc = "extract_returned"
    /\ FilesOf("hw") # {} /\ FilesOf("sw") # {}
    /\ RowsWithTier(WinningTable("hw")) \in 1..(Len(WinningTable("hw").rows) - 1)
    /\ SumValues(hw_insights.tier_counts) = RowsWithTier(WinningTable("hw"))
    /\ \E v \in DOMAIN sw_insights.tier_counts : sw_insights.tier_counts[v] >= 2

\* C17: extract_insights never returns a null record: a category into which no
\* parsable file of the list classifies, and so both categories for the empty
\* list, gets the all-empty record (no obsolete items, no recommendations, no
\* tier counts).
C17_EmptyRecordWithoutSource ==
    pc = "extract_returned" =>
        \A cat \in {"hw", "sw"} :
            /\ DOMAIN Returned(cat) = {"obsolete", "recommendations", "tier_counts"}
            /\ FilesOf(cat) = {} => Returned(cat) = NoInsights

\* C17 witness: a list with a hardware file that is no .xlsx workbook or does
\* not parse, and with no software file, was processed and both records came
\* back all-empty.
C17_Witness ==
    /\ pc = "extract_returned"
    /\ \E k \in 1..Len(local_files) : CategoryAt(k) = "hw" /\ ~ParsesAt(k)
    /\ FilesOf("hw") = {} /\ FilesOf("sw") = {}
    /\ hw_insights = NoInsights /\ sw_insights = NoInsights

\* C17 for the empty list: extract_insights([]) was called and returned two
\* all-empty records.
C17_EmptyListReturned ==
    /\ pc = "extract_returned"
    /\ local_files = <<>>
    /\ hw_insights = NoInsights /\ sw_insights = NoInsights

\* the two records after the first k files of the list were processed
RecordsAfter(k) == ExtractInsights(SubSeq(local_files, 1, k), disk)

\* C21: a file is classified by its lower-cased name, hardware if it contains
\* "hw", software if it contains "sw" (and not "hw"); a file whose name contains
\* neither leaves both records as they were before it, whatever it holds.
C21_UnclassifiedFileChangesNothing ==
    pc = "extract_returned" =>
        /\ [hw |-> hw_insights, sw |-> sw_insights] = RecordsAfter(Len(local_files))
        /\ \A k \in 1..Len(local_files) :
              /\ CategoryAt(k) = "none" => RecordsAfter(k) = RecordsAfter(k - 1)
              /\ (CategoryAt(k) = "hw" /\ ParsesAt(k)) =>
                    RecordsAfter(k) = [RecordsAfter(k - 1) EXCEPT !.hw = AloneAt(k)]
              /\ (CategoryAt(k) = "sw" /\ ParsesAt(k)) =>
                    RecordsAfter(k) = [RecordsAfter(k - 1) EXCEPT !.sw = AloneAt(k)]

\* C21 witness: after a hardware file that gave a non-empty record, a parsable
\* workbook with data whose name has neither "hw" nor "sw" was processed; the
\* hardware record is still that of the first file and the software record is
\* still empty.
C21_Witness ==
    /\ pc = "extract_returned"
    /\ Len(local_files) = 2
    /\ CategoryAt(1) = "hw" /\ ParsesAt(1) /\ AloneAt(1) # NoInsights
    /\ CategoryAt(2) = "none" /\ ParsesAt(2) /\ AloneAt(2) # NoInsights
    /\ hw_insights = AloneAt(1)
    /\ sw_insights = NoInsights

----------------------------------------------------------------------------
(* Properties of one run of process_market_gap (checked under Spec) *)

RunEnded == pc \in {"failed", "done"}

\* every input file was downloaded, and every staged file parses
AllStagedAndParsed ==
    /\ Len(local_files) = Len(files)
    /\ \A k \in 1..Len(local_files) : Readable(disk, local_files[k].local_path)

\* every chart the renderer returned was uploaded
ChartsPublished ==
    /\ chart_paths # <<>>
    /\ \A j \in 1..Len(chart_paths) : chart_paths[j].key \in chart_ids

\* C1: a failed download is absorbed by staging: it never reaches the handler
\* that ends the run, and once staging is over every file of the input list has
\* had its download attempted.
C1_DownloadFailureDropsFile ==
    /\ error.at # "download_sheet_as_xlsx"
    /\ (pc # "staging" /\ error.at # "read_excel") => attempted = 1..Len(files)

\* C2: a run whose input files all staged and parsed, and whose charts were
\* published, ends in DONE: it returns the report engine's result, not an error
\* record.
C2_RunReachesDone ==
    (RunEnded /\ AllStagedAndParsed /\ ChartsPublished) => pc = "done"

\* the stage in which the code at `at` runs
StageAt(at) ==
    CASE at \in {"download_sheet_as_xlsx", "read_excel"} -> "STAGING"
      [] at = "generate_visual_charts" -> "CHARTING"
      [] at = "upload_to_drive" -> "PUBLISHING_CHARTS"
      [] at = "payload" -> "ASSEMBLING"
      [] OTHER -> "none"

\* nothing of a stage after the failed one has happened
LaterStagesUntouched ==
    /\ trace[Len(trace)] = StageAt(error.at)
    /\ StageAt(error.at) = "STAGING" =>
           hw_insights = NoInsights /\ sw_insights = NoInsights
    /\ StageAt(error.at) \in {"STAGING", "CHARTING"} =>
           chart_paths = <<>> /\ chart_ids = {} /\ drive = <<>>
    /\ StageAt(error.at) # "ASSEMBLING" => ~summaries.built
    /\ Len(drive) = Cardinality(chart_ids)

\* C3: an exception that leaves a stage moves the run to FAILED at once, with
\* nothing of a later stage performed, and a FAILED run takes no further step.
C3_ExceptionEndsRun ==
    [][ /\ error' # NoError => (pc' = "failed" /\ LaterStagesUntouched')
        /\ pc = "failed" => UNCHANGED vars ]_vars

\* C3 witness: the upload of the second chart raised after the first chart was
\* uploaded; the run is FAILED and no summary was built.
C3_Witness ==
    /\ pc = "failed"
    /\ error = [type |-> "HttpError", at |-> "upload_to_drive"]
    /\ Cardinality(chart_ids) = 1
    /\ ~summaries.built

ClaimedOrder ==
    <<"STAGING", "EXTRACTING", "SYNTHESIZING", "CHARTING", "PUBLISHING_CHARTS",
      "DISPATCHING", "COLLECTING_RESULTS", "DONE">>
IsPrefix(s, t) == Len(s) <= Len(t) /\ \A k \in 1..Len(s) : s[k] = t[k]

\* C4: the stages of a run are entered in the order STAGING, EXTRACTING,
\* SYNTHESIZING, CHARTING, PUBLISHING_CHARTS, DISPATCHING, COLLECTING_RESULTS,
\* DONE, none skipped: the stages entered so far are always a prefix of it.
C4_StagesInClaimedOrder ==
    IsPrefix(SelectSeq(trace, LAMBDA st : st \in {ClaimedOrder[k] : k \in 1..Len(ClaimedOrder)}),
             ClaimedOrder)

\* C7: a staged file that does not parse never ends the run.
C7_UnparsableFileTolerated ==
    (\E k \in 1..Len(local_files) : ~Readable(disk, local_files[k].local_path))
        => ~(pc = "failed" /\ error.at = "read_excel")

TierCountsOf(label) ==
    IF label = "hardware_insights" THEN hw_insights.tier_counts
    ELSE sw_insights.tier_counts
Rendered == \E k \in 1..Len(trace) : trace[k] = "CHARTING"

\* C8: a category whose winning table has no Tier column has empty tier_counts,
\* the renderer returns no chart key for that category's label, and it raises
\* no error.
C8_NoChartWithoutTiers ==
    \A cat \in {"hw", "sw"} :
        LET label == IF cat = "hw" THEN "hardware_insights" ELSE "software_insights"
        IN (/\ Rendered
            /\ FilesOf(cat) # {}
            /\ ColIndex(ReadExcel(disk, local_files[LastOf(cat)].local_path), "tier") = 0)
           => /\ DOMAIN TierCountsOf(label) = {}
              /\ \A j \in 1..Len(chart_paths) : chart_paths[j].key[1] # label
              /\ error.at # "generate_visual_charts"

\* C22: process_market_gap never raises to its caller: whatever exception a
\* stage raises, the call ends by returning the error record, so the thread
\* that runs it does not die of it.
C22_NeverRaises ==
    /\ pc # "raised"
    /\ error # NoError => pc = "failed"

\* C22 witness: the exception of the last stage a run reaches (the NameError of
\* the payload, after every chart was uploaded) was turned into the error
\* record.
C22_Witness ==
    /\ pc = "failed"
    /\ error = [type |-> "NameError", at |-> "payload"]
    /\ ChartsPublished
    /\ summaries.built

\* C14: a download or a storage upload that is answered 5xx is sent again, at
\* most RetryTotal times, before its failure reaches the run: no call is
\* attempted more than RetryTotal + 1 times, and none that met a 5xx answer
\* was attempted only once.
C14_TransientErrorsRetried ==
    /\ http.attempts <= RetryTotal + 1
    /\ http.server_errors >= 1 => http.attempts >= 2

\* C19: for a category with tier counts, the chart rendered for its label shows
\* tier against count: the value plotted for each tier is the extracted
\* tier_counts entry of that tier.
C19_ChartShowsTierCounts ==
    \A j \in 1..Len(chart_paths) :
        (/\ chart_paths[j].key[2] = "tier"
         /\ DOMAIN TierCountsOf(chart_paths[j].key[1]) # {})
            => chart_paths[j].plotted = TierCountsOf(chart_paths[j].key[1])

----------------------------------------------------------------------------
(* Properties of the front doors (checked under SpecDoor) *)

\* C10: two workers started for different session ids never get the same
\* sandbox directory, and no directory is written by the workers of two
\* different sessions.
C10_SandboxExclusive ==
    /\ \A i, j \in 1..Len(workers) :
          workers[i].session_id # workers[j].session_id
              => workers[i].local_path # workers[j].local_path
    /\ \A w1, w2 \in writes :
          (w1.by = "worker" /\ w2.by = "worker" /\ w1.dir = w2.dir)
              => w1.session_id = w2.session_id

\* the answers that tell the caller its run was started
StartedStatuses == {200, 202}

\* C12: a request that lacks a required field is rejected and leaves nothing
\* behind: while every request so far was rejected, no worker thread was
\* started, no sandbox or temporary directory was created and no file was
\* written.
C12_RejectedRequestLeavesNothing ==
    (\A i \in 1..Len(responses) : responses[i].status \notin StartedStatuses)
        => /\ workers = <<>>
           /\ sandboxes = {}
           /\ writes = {}

\* the answers that started a run, in order
StartedResponses == SelectSeq(responses, LAMBDA r : r.status \in StartedStatuses)
StartedStatusOf(door) == IF door = "app" THEN 200 ELSE 202

\* C18: the answer to an accepted request does not depend on the run: every
\* worker's request was answered with the door's 'started' status, and that
\* answer stays the same whatever state the worker is in afterwards (running,
\* failed or crashed).
C18_StartedWhateverTheRun ==
    /\ Len(StartedResponses) = Len(workers)
    /\ \A i \in 1..Len(workers) :
          /\ StartedResponses[i].door = workers[i].door
          /\ StartedResponses[i].session_id = workers[i].session_id
          /\ StartedResponses[i].status = StartedStatusOf(workers[i].door)

\* C18 witness: one accepted request's worker crashed, another's run ended in
\* failure, and both requests hold their 'started' answer.
C18_Witness ==
    /\ \E i, j \in 1..Len(workers) :
          workers[i].state = "crashed" /\ workers[j].state = "failed"
    /\ Len(StartedResponses) = Len(workers)
    /\ \A i \in 1..Len(StartedResponses) :
          StartedResponses[i].status = StartedStatusOf(StartedResponses[i].door)

\* C24: a request that app.start_market_gap accepted gets a worker that runs
\* the pipeline (downloads the listed files, then writes and uploads the two
\* reports): the worker's thread never ends in an exception before the
\* pipeline has started.
C24_AcceptedRequestRunsPipeline ==
    \A i \in 1..Len(workers) :
        workers[i].door = "app" => workers[i].state # "crashed"

----------------------------------------------------------------------------
(* Properties of folder resolution (checked under SpecWorker) *)

\* C11: folder resolution is a lookup followed by a separate create, with no
\* lock between them: a caller whose lookup found no folder creates one of its
\* own, whatever the other callers have created since, so two folders of one
\* name come to exist.
C11_LookupThenCreate ==
    \A c \in Callers :
        (callers[c].pc = "upload_file" /\ callers[c].seen = {})
            => /\ callers[c].folder_id \in 1..Len(folders)
               /\ folders[callers[c].folder_id] =
                      [name |-> callers[c].session_id, by |-> c]

\* C11 witness: the Drive holds two folders of the same name, created by two
\* callers.
C11_Witness ==
    \E i, j \in 1..Len(folders) :
        /\ i # j
        /\ folders[i].name = folders[j].name
        /\ folders[i].by # folders[j].by

\* C13: every run that was started ends: each caller of
\* run_market_gap_analysis eventually reaches the end of the function or its
\* exception handler, also when a peer never answers (checked under
\* FairSpecWorker).
C13_EveryRunEnds ==
    <>(\A c \in Callers : callers[c].pc \in {"done", "failed"})

----------------------------------------------------------------------------
(* Properties of ai_narrative (checked under SpecNarrative) *)

NarrativeEnded == narrative.pc \in {"returned", "raised"}
LastCall == narrative.calls[Len(narrative.calls)]

\* C20: ai_narrative calls the primary model exactly once; it calls the
\* fallback model once, and only after the primary call raised a rate-limit
\* error; any other failure of the primary call and every failure of the
\* fallback call is raised to the caller.  No more than two calls are made.
C20_OneFallbackOnRateLimit ==
    /\ Len(narrative.calls) <= 2
    /\ narrative.pc # "primary" => narrative.calls[1].model = PrimaryModel.model
    /\ Len(narrative.calls) = 2 =>
          /\ narrative.calls[1].answer = "RateLimitError"
          /\ narrative.calls[2].model = FallbackModel.model
    /\ NarrativeEnded =>
          /\ narrative.calls[1].answer = "RateLimitError" => Len(narrative.calls) = 2
          /\ narrative.pc = "returned" <=> LastCall.answer = "text"
          /\ narrative.pc = "raised" =>
                narrative.raised = IF LastCall.answer = "no_content"
                                   THEN "AttributeError" ELSE LastCall.answer

\* C20 witness: the primary call was rate-limited, the fallback call failed as
\* well, and that failure was raised to the caller after two calls.
C20_Witness ==
    /\ narrative.pc = "raised"
    /\ Len(narrative.calls) = 2
    /\ narrative.calls[1].answer = "RateLimitError"
    /\ narrative.calls[2].answer \in {"RateLimitError", "APIError"}
    /\ narrative.raised = narrative.calls[2].answer

----------------------------------------------------------------------------
(* Properties of sequential publishes (checked under SpecWorker) *)

\* the callers of session name s, and whether their publishes came one run
\* after the other
CallersOf(name) == {c \in Callers : callers[c].session_id = name}
Sequential(name) == \A c \in CallersOf(name) : callers[c].alone

\* C23: when the publishes for a session name are not interleaved with another
\* worker's, folder resolution is idempotent: the first upload creates the
\* folder and every later one finds it, so there is never more than one folder
\* of that name, every uploaded file of that name is in it, and a run that
\* uploaded its reports leaves exactly one.
C23_SequentialPublishesOneFolder ==
    \A name \in CallerSessions :
        Sequential(name) =>
            /\ Cardinality(FoldersNamed(name)) <= 1
            /\ \A u \in uploads :
                  u.by \in CallersOf(name) => FoldersNamed(name) = {u.parent}
            /\ \A c \in CallersOf(name) :
                  (drive_service /\ callers[c].pc = "done") =>
                      /\ Cardinality(FoldersNamed(name)) = 1
                      /\ \A k \in 1..Len(ReportNames) :
                            \E u \in uploads : u.by = c /\ u.name = ReportNames[k]

\* C23 witness: two runs for the same session name published one after the
\* other, four uploads in all; the Drive holds one folder of that name, made by
\* the first run, with all four files in it.
C23_Witness ==
    /\ drive_service
    /\ \E name \in CallerSessions :
          /\ Cardinality(CallersOf(name)) >= 2
          /\ Sequential(name)
          /\ \A c \in CallersOf(name) : callers[c].pc = "done"
          /\ Cardinality(FoldersNamed(name)) = 1
          /\ Cardinality({u \in uploads : u.by \in CallersOf(name)}) =
                 2 * Cardinality(CallersOf(name))
          /\ \A u \in uploads : u.by \in CallersOf(name) => FoldersNamed(name) = {u.parent}

====
